---- MODULE Spec2Model ----
(***************************************************************************)
(* Model of parse_qe_inputs_to_json.py: the extraction of variable         *)
(* records from the HTML documentation of an input format, and their       *)
(* projection into completion.json, diagnostics.json, constraints.json,    *)
(* ranges.json and snippets.json.                                          *)
(*                                                                         *)
(* A Python str is a tuple of one-character strings, so that the regular   *)
(* expressions of the source act on characters.  A regular expression is   *)
(* a tuple of nodes, matched by a backtracking matcher with the priorities *)
(* of Python's re (greedy quantifiers, ordered alternation, leftmost       *)
(* match).  An HTML element is the tuple of its text nodes.                *)
(***************************************************************************)
EXTENDS Integers, Sequences, FiniteSets, TLC

\* Python's None where a str is expected, and where a dict is expected.
None == <<"None">>
NoneDict == [none |-> TRUE]

-----------------------------------------------------------------------------
(* Characters *)

LowerSeq == <<"a","b","c","d","e","f","g","h","i","j","k","l","m","n","o","p","q","r","s","t","u","v","w","x","y","z">>
UpperSeq == <<"A","B","C","D","E","F","G","H","I","J","K","L","M","N","O","P","Q","R","S","T","U","V","W","X","Y","Z">>
DigitSeq == <<"0","1","2","3","4","5","6","7","8","9">>

Range(seq) == {seq[i] : i \in DOMAIN seq}

Lowers == Range(LowerSeq)
Uppers == Range(UpperSeq)
Letters == Lowers \cup Uppers
Digits == Range(DigitSeq)
\* \w and \s of re
WordChars == Letters \cup Digits \cup {"_"}
Whitespace == {" ", "\t", "\n"}

lower(c) == IF c \in Uppers THEN LowerSeq[CHOOSE i \in DOMAIN UpperSeq : UpperSeq[i] = c] ELSE c
upper(c) == IF c \in Lowers THEN UpperSeq[CHOOSE i \in DOMAIN LowerSeq : LowerSeq[i] = c] ELSE c

\* str.lower(), str.upper()
str_lower(s) == [i \in 1..Len(s) |-> lower(s[i])]
str_upper(s) == [i \in 1..Len(s) |-> upper(s[i])]

SetMax(S) == CHOOSE x \in S : \A y \in S : x >= y

\* str.lstrip(chars), str.rstrip(chars), str.strip(chars)
RECURSIVE str_lstrip(_, _)
str_lstrip(s, chars) ==
    IF s # <<>> /\ Head(s) \in chars THEN str_lstrip(Tail(s), chars) ELSE s
RECURSIVE str_rstrip(_, _)
str_rstrip(s, chars) ==
    IF s # <<>> /\ s[Len(s)] \in chars THEN str_rstrip(SubSeq(s, 1, Len(s) - 1), chars) ELSE s
str_strip(s, chars) == str_rstrip(str_lstrip(s, chars), chars)

\* needle in s
Contains(s, needle) ==
    \E i \in 1..(Len(s) - Len(needle) + 1) : SubSeq(s, i, i + Len(needle) - 1) = needle

\* sep.join(parts)
RECURSIVE Join(_, _)
Join(parts, sep) ==
    IF parts = <<>> THEN <<>>
    ELSE IF Len(parts) = 1 THEN parts[1]
    ELSE parts[1] \o sep \o Join(Tail(parts), sep)

\* falsy str or None: "not text"
Falsy(text) == text = None \/ text = <<>>

\* [x for x in seq if x]
RECURSIVE Truthy(_)
Truthy(seq) ==
    IF seq = <<>> THEN <<>>
    ELSE IF ~Falsy(Head(seq)) THEN <<Head(seq)>> \o Truthy(Tail(seq))
    ELSE Truthy(Tail(seq))

\* the first-seen-order de-duplication loops: items not in seen are appended
RECURSIVE Dedup(_, _)
Dedup(items, seen) ==
    IF items = <<>> THEN <<>>
    ELSE IF Head(items) \in seen THEN Dedup(Tail(items), seen)
    ELSE <<Head(items)>> \o Dedup(Tail(items), seen \cup {Head(items)})

-----------------------------------------------------------------------------
(* Regular expressions *)

Chr(set, neg, q) == <<[kind |-> "chr", set |-> set, neg |-> neg, q |-> q]>>
One(set) == Chr(set, FALSE, "one")
Plus(set) == Chr(set, FALSE, "plus")
Star(set) == Chr(set, FALSE, "star")
Opt(set) == Chr(set, FALSE, "opt")
NotPlus(set) == Chr(set, TRUE, "plus")
Lit(str) == [j \in 1..Len(str) |-> One({str[j]})[1]]
\* a literal under re.IGNORECASE
LitIC(str) == [j \in 1..Len(str) |-> One({lower(str[j]), upper(str[j])})[1]]
\* \b
Bnd == <<[kind |-> "bnd"]>>
\* ( and ) of capturing group g
Open(g) == <<[kind |-> "open", g |-> g]>>
Close(g) == <<[kind |-> "close", g |-> g]>>
Grp(g, body) == Open(g) \o body \o Close(g)
\* (a|b|...) of literals
Alt(alts, ic) == <<[kind |-> "alt", alts |-> alts, ic |-> ic]>>
\* the end of the text, for re.fullmatch
EndOfText == <<[kind |-> "end"]>>
\* (?:body)?
OptGrp(body) == <<[kind |-> "opt", n |-> Len(body)]>> \o body

NoMatch == [ok |-> FALSE, start |-> 0, end |-> 0, caps |-> <<>>]
NoCaps == <<<<0, 0>>, <<0, 0>>, <<0, 0>>>>

InCls(nd, c) == (c \in nd.set) # nd.neg

IsWordAt(s, i) == i >= 1 /\ i <= Len(s) /\ s[i] \in WordChars

\* the number of consecutive characters of s from position i that node nd takes
RECURSIVE RunLen(_, _, _)
RunLen(nd, s, i) ==
    IF i <= Len(s) /\ InCls(nd, s[i]) THEN 1 + RunLen(nd, s, i + 1) ELSE 0

StartsWith(s, i, lit, ic) ==
    /\ i + Len(lit) - 1 <= Len(s)
    /\ LET sub == SubSeq(s, i, i + Len(lit) - 1)
       IN IF ic THEN str_lower(sub) = str_lower(lit) ELSE sub = lit

\* re.match of nodes k.. of re at position i of s: the first success in
\* backtracking order
RECURSIVE Match(_, _, _, _, _)
RECURSIVE TryRun(_, _, _, _, _, _, _)
RECURSIVE TryAlt(_, _, _, _, _, _)
TryRun(re, k, s, i, caps, n, lo) ==
    IF n < lo THEN NoMatch
    ELSE LET r == Match(re, k + 1, s, i + n, caps)
         IN IF r.ok THEN r ELSE TryRun(re, k, s, i, caps, n - 1, lo)
TryAlt(re, k, s, i, caps, a) ==
    IF a > Len(re[k].alts) THEN NoMatch
    ELSE IF StartsWith(s, i, re[k].alts[a], re[k].ic)
    THEN LET r == Match(re, k + 1, s, i + Len(re[k].alts[a]), caps)
         IN IF r.ok THEN r ELSE TryAlt(re, k, s, i, caps, a + 1)
    ELSE TryAlt(re, k, s, i, caps, a + 1)
Match(re, k, s, i, caps) ==
    IF k > Len(re) THEN [ok |-> TRUE, start |-> 0, end |-> i, caps |-> caps]
    ELSE LET nd == re[k] IN
      CASE nd.kind = "chr" ->
             LET lo == IF nd.q \in {"one", "plus"} THEN 1 ELSE 0
                 hi == IF nd.q \in {"plus", "star"} THEN RunLen(nd, s, i)
                       ELSE IF i <= Len(s) /\ InCls(nd, s[i]) THEN 1 ELSE 0
             IN TryRun(re, k, s, i, caps, hi, lo)
        [] nd.kind = "bnd" ->
             IF IsWordAt(s, i - 1) # IsWordAt(s, i)
             THEN Match(re, k + 1, s, i, caps) ELSE NoMatch
        [] nd.kind = "open" ->
             Match(re, k + 1, s, i, [caps EXCEPT ![nd.g] = <<i, i>>])
        [] nd.kind = "close" ->
             Match(re, k + 1, s, i, [caps EXCEPT ![nd.g] = <<caps[nd.g][1], i>>])
        [] nd.kind = "alt" -> TryAlt(re, k, s, i, caps, 1)
        [] nd.kind = "end" ->
             IF i = Len(s) + 1 THEN Match(re, k + 1, s, i, caps) ELSE NoMatch
        [] nd.kind = "opt" ->
             LET r == Match(re, k + 1, s, i, caps)
             IN IF r.ok THEN r ELSE Match(re, k + 1 + nd.n, s, i, caps)

SetMin(S) == CHOOSE x \in S : \A y \in S : x <= y

\* re.search from position from: the match at the leftmost position that has one
MatchStarts(re, s, from) == {i \in from..(Len(s) + 1) : Match(re, 1, s, i, NoCaps).ok}
MatchAtFirst(re, s, starts) ==
    IF starts = {} THEN NoMatch
    ELSE [Match(re, 1, s, SetMin(starts), NoCaps) EXCEPT !.start = SetMin(starts)]
SearchFrom(re, s, from) == MatchAtFirst(re, s, MatchStarts(re, s, from))

Search(re, s) == SearchFrom(re, s, 1)

\* re.finditer: the non-overlapping matches, left to right (m is the next match)
RECURSIVE FindIterFrom(_, _, _)
FindIterNext(re, s, m) ==
    IF ~m.ok THEN <<>>
    ELSE <<m>> \o FindIterFrom(re, s, IF m.end > m.start THEN m.end ELSE m.end + 1)
FindIterFrom(re, s, from) == FindIterNext(re, s, SearchFrom(re, s, from))

FindIter(re, s) == FindIterFrom(re, s, 1)

\* m.group(g), and m.group(0)
Group(s, m, g) == SubSeq(s, m.caps[g][1], m.caps[g][2] - 1)
Group0(s, m) == SubSeq(s, m.start, m.end - 1)

\* re.fullmatch
FullMatch(re, s) ==
    Match(re \o EndOfText, 1, s, 1, NoCaps).ok

\* re.sub(re, repl, s) from position from (m is the next match)
RECURSIVE SubFrom(_, _, _, _)
SubNext(re, repl, s, from, m) ==
    IF ~m.ok \/ m.end = m.start THEN SubSeq(s, from, Len(s))
    ELSE SubSeq(s, from, m.start - 1) \o repl \o SubFrom(re, repl, s, m.end)
SubFrom(re, repl, s, from) == SubNext(re, repl, s, from, SearchFrom(re, s, from))

\* re.sub(r"\s+", " ", text)
CollapseWhitespace(text) == SubFrom(Plus(Whitespace), <<" ">>, text, 1)

-----------------------------------------------------------------------------
(* Text heuristics *)

_normalize_text(text) ==
    str_strip(CollapseWhitespace(IF Falsy(text) THEN <<>> ELSE text), Whitespace)

\* _map_type without the override of line 25
MapTypeNoArray(type_text, name) ==
    LET normalized == str_strip(str_upper(IF Falsy(type_text) THEN <<>> ELSE type_text),
                                Whitespace)
    IN IF Contains(normalized, <<"C","H","A","R","A","C","T","E","R">>) THEN <<"S","t","r","i","n","g">>
       ELSE IF Contains(normalized, <<"I","N","T","E","G","E","R">>) THEN <<"I","n","t","e","g","e","r">>
       ELSE IF Contains(normalized, <<"R","E","A","L">>) THEN <<"R","e","a","l">>
       ELSE IF Contains(normalized, <<"L","O","G","I","C","A","L">>) THEN <<"L","o","g","i","c","a","l">>
       ELSE None

_map_type(type_text, name) ==
    LET normalized == str_strip(str_upper(IF Falsy(type_text) THEN <<>> ELSE type_text),
                                Whitespace)
        base == IF Contains(normalized, <<"C","H","A","R","A","C","T","E","R">>) THEN <<"S","t","r","i","n","g">>
                ELSE IF Contains(normalized, <<"I","N","T","E","G","E","R">>) THEN <<"I","n","t","e","g","e","r">>
                ELSE IF Contains(normalized, <<"R","E","A","L">>) THEN <<"R","e","a","l">>
                ELSE IF Contains(normalized, <<"L","O","G","I","C","A","L">>) THEN <<"L","o","g","i","c","a","l">>
                ELSE None
        nm == IF Falsy(name) THEN <<>> ELSE name
    IN IF base = None THEN None
       ELSE IF Contains(nm, <<"(">>) \/ Contains(nm, <<")">>) THEN <<"A","r","r","a","y">>
       ELSE base

unit_map ==
    << <<<<"r","y">>, <<"R","y">>>>,
       <<<<"r","y","d","b","e","r","g">>, <<"R","y">>>>,
       <<<<"e","v">>, <<"e","V">>>>,
       <<<<"b","o","h","r">>, <<"b","o","h","r">>>>,
       <<<<"a","n","g","s","t","r","o","m">>, <<"a","n","g","s","t","r","o","m">>>>,
       <<<<"a",".","u">>, <<"a",".","u",".">>>>,
       <<<<"a","u">>, <<"a",".","u",".">>>>,
       <<<<"a","m","u">>, <<"a","m","u">>>>,
       <<<<"k","c","a","l","/","m","o","l">>, <<"k","c","a","l","/","m","o","l">>>>,
       <<<<"k","e","l","v","i","n">>, <<"K">>>>,
       <<<<"k">>, <<"K">>>>,
       <<<<"f","s">>, <<"f","s">>>>,
       <<<<"c","m">>, <<"c","m">>>>,
       <<<<"n","m">>, <<"n","m">>>>,
       <<<<"p","m">>, <<"p","m">>>>,
       <<<<"h","a">>, <<"H","a">>>>,
       <<<<"h","a","r","t","r","e","e">>, <<"H","a">>>>,
       <<<<"1","/","b","o","h","r","^","3">>, <<"1","/","b","o","h","r","^","3">>>>,
       <<<<"r","y","/","a",".","u">>, <<"R","y","/","a",".","u",".">>>>,
       <<<<"r","y","/","a",".","u",".">>, <<"R","y","/","a",".","u",".">>>>,
       <<<<"a",".","u",".","/","r","y">>, <<"a",".","u",".","/","R","y">>>> >>

\* [A-Za-z/\^0-9\-\.] and [A-Za-z/\^0-9\-\*\.]
UnitChars == Letters \cup Digits \cup {"/", "^", "-", "."}
UnitTokenChars == UnitChars \cup {"*"}

\* lowered in unit_map, and unit_map[lowered]
UnitKeys == {unit_map[i][1] : i \in DOMAIN unit_map}
UnitOf(lowered) == unit_map[SetMax({i \in DOMAIN unit_map : unit_map[i][1] = lowered})][2]

\* _normalize_unit, from "if lowered in unit_map" on
UnitOfLowered(text, lowered) ==
    IF lowered \in UnitKeys THEN UnitOf(lowered)
    ELSE IF FullMatch(Lit(<<"1","/","b","o","h","r","^","3">>), lowered) THEN <<"1","/","b","o","h","r","^","3">>
    ELSE IF FullMatch(Plus(UnitChars), text) /\ Len(text) <= 12 THEN text
    ELSE None

_normalize_unit(text) ==
    IF Falsy(text) THEN None
    ELSE UnitOfLowered(text, str_strip(str_lower(text), {"."}))

\* \(([^\)]+)\)
ParenRe == Lit(<<"(">>) \o Grp(1, NotPlus({")"})) \o Lit(<<")">>)
\* \bin\s+([A-Za-z/\^0-9\-\*\.]+)\b
InUnitRe == Bnd \o Lit(<<"i","n">>) \o Plus(Whitespace) \o Grp(1, Plus(UnitTokenChars)) \o Bnd
\* units? of\s+([A-Za-z/\^0-9\-\*\.]+), re.IGNORECASE
UnitsOfRe ==
    LitIC(<<"u","n","i","t">>) \o Opt({"s", "S"}) \o LitIC(<<" ","o","f">>) \o Plus(Whitespace)
    \o Grp(1, Plus(UnitTokenChars))

\* [_normalize_text(m.group(1)) for m in ms]
Group1s(s, ms) == [j \in 1..Len(ms) |-> _normalize_text(Group(s, ms[j], 1))]

\* the candidate of the first parenthesized group (paren is its match)
ParenCandidate(description, paren) ==
    IF paren.ok THEN <<_normalize_text(Group(description, paren, 1))>> ELSE <<>>

\* the candidates with the "in <token>" phrases ranked before the parenthesized group
UnitCandidatesInFirst(description) ==
    Group1s(description, FindIter(InUnitRe, description))
    \o ParenCandidate(description, Search(ParenRe, description))
    \o Group1s(description, FindIter(UnitsOfRe, description))

\* the candidates of _extract_units, in the order they are appended
UnitCandidates(description) ==
    ParenCandidate(description, Search(ParenRe, description))
    \o Group1s(description, FindIter(InUnitRe, description))
    \o Group1s(description, FindIter(UnitsOfRe, description))

\* the loop "for candidate in candidates": the first unit that is truthy
\* (unit is that of the first candidate)
RECURSIVE FirstUnit(_)
FirstUnitNext(candidates, unit) ==
    IF ~Falsy(unit) THEN unit ELSE FirstUnit(Tail(candidates))
FirstUnit(candidates) ==
    IF candidates = <<>> THEN None
    ELSE FirstUnitNext(candidates, _normalize_unit(Head(candidates)))

_extract_units(description) ==
    IF Falsy(description) THEN None ELSE FirstUnit(UnitCandidates(description))

\* (-?\d+(?:\.\d+)?) as group g
NumRe(g) == Grp(g, Opt({"-"}) \o Plus(Digits) \o OptGrp(Lit(<<".">>) \o Plus(Digits)))
\* (-?\d+(?:\.\d+)?)\s*<\s*\w+\s*<\s*(-?\d+(?:\.\d+)?)
RangeLtRe ==
    NumRe(1) \o Star(Whitespace) \o Lit(<<"<">>) \o Star(Whitespace) \o Plus(WordChars)
    \o Star(Whitespace) \o Lit(<<"<">>) \o Star(Whitespace) \o NumRe(2)
\* \b(in|within)\s*\]\s*([\-\d\.]+)\s*,\s*([\-\d\.]+)\s*\[
RangeBracketRe ==
    Bnd \o Grp(1, Alt(<<<<"i","n">>, <<"w","i","t","h","i","n">>>>, FALSE)) \o Star(Whitespace) \o Lit(<<"]">>)
    \o Star(Whitespace) \o Grp(2, Plus(Digits \cup {"-", "."})) \o Star(Whitespace)
    \o Lit(<<",">>) \o Star(Whitespace) \o Grp(3, Plus(Digits \cup {"-", "."}))
    \o Star(Whitespace) \o Lit(<<"[">>)
\* between\s+(-?\d+(?:\.\d+)?)\s+and\s+(-?\d+(?:\.\d+)?), re.IGNORECASE
RangeBetweenRe ==
    LitIC(<<"b","e","t","w","e","e","n">>) \o Plus(Whitespace) \o NumRe(1) \o Plus(Whitespace)
    \o LitIC(<<"a","n","d">>) \o Plus(Whitespace) \o NumRe(2)
\* from\s+(-?\d+(?:\.\d+)?)\s+to\s+(-?\d+(?:\.\d+)?), re.IGNORECASE
RangeFromRe ==
    LitIC(<<"f","r","o","m">>) \o Plus(Whitespace) \o NumRe(1) \o Plus(Whitespace)
    \o LitIC(<<"t","o">>) \o Plus(Whitespace) \o NumRe(2)

\* the four "m = re.search(...); if m: return ..." of _extract_range, on their matches
RangeOfMatches(description, m1, m2, m3, m4) ==
    IF m1.ok
    THEN Group(description, m1, 1) \o <<" ","<"," ","x"," ","<"," ">> \o Group(description, m1, 2)
    ELSE IF m2.ok
    THEN Group(description, m2, 2) \o <<".",".">> \o Group(description, m2, 3)
    ELSE IF m3.ok
    THEN Group(description, m3, 1) \o <<".",".">> \o Group(description, m3, 2)
    ELSE IF m4.ok
    THEN Group(description, m4, 1) \o <<".",".">> \o Group(description, m4, 2)
    ELSE None

_extract_range(description) ==
    IF Falsy(description) THEN None
    ELSE RangeOfMatches(description,
                        Search(RangeLtRe, description), Search(RangeBracketRe, description),
                        Search(RangeBetweenRe, description), Search(RangeFromRe, description))

\* [A-Za-z_][A-Za-z0-9_\(\)]+
IdentRe == One(Letters \cup {"_"}) \o Plus(Letters \cup Digits \cup {"_", "(", ")"})
\* ([A-Za-z_][A-Za-z0-9_\(\)]+)\s*(==|=|/=|>=|<=|>|<)\s*([A-Za-z0-9_\.\-']+)
CompareRe ==
    Grp(1, IdentRe) \o Star(Whitespace)
    \o Grp(2, Alt(<<<<"=","=">>, <<"=">>, <<"/","=">>, <<">","=">>, <<"<","=">>, <<">">>, <<"<">>>>, FALSE))
    \o Star(Whitespace) \o Grp(3, Plus(Letters \cup Digits \cup {"_", ".", "-", "'"}))
\* \b([A-Za-z_][A-Za-z0-9_\(\)]+)\s+is\s+(\.TRUE\.|\.FALSE\.|true|false)\b, re.IGNORECASE
IsBoolRe ==
    Bnd \o Grp(1, IdentRe) \o Plus(Whitespace) \o LitIC(<<"i","s">>) \o Plus(Whitespace)
    \o Grp(2, Alt(<<<<".","T","R","U","E",".">>, <<".","F","A","L","S","E",".">>, <<"t","r","u","e">>, <<"f","a","l","s","e">>>>, TRUE)) \o Bnd
\* \b([A-Za-z_][A-Za-z0-9_\(\)]+)\s+set\b, re.IGNORECASE
IsSetRe == Bnd \o Grp(1, IdentRe) \o Plus(Whitespace) \o LitIC(<<"s","e","t">>) \o Bnd

\* the three "m = re.search(...); if m: return ..." of _normalize_condition, on
\* their matches
ConditionOfMatches(t, m1, m2, m3) ==
    IF m1.ok
    THEN Group(t, m1, 1) \o <<" ">> \o Group(t, m1, 2) \o <<" ">> \o Group(t, m1, 3)
    ELSE IF m2.ok
    THEN Group(t, m2, 1) \o <<" ","=","="," ">> \o str_upper(Group(t, m2, 2))
    ELSE IF m3.ok
    THEN Group(t, m3, 1) \o <<" ","=","="," ",".","T","R","U","E",".">>
    ELSE None

\* _normalize_condition, from the first re.search on
ConditionOf(t) ==
    ConditionOfMatches(t, Search(CompareRe, t), Search(IsBoolRe, t), Search(IsSetRe, t))

_normalize_condition(text) ==
    IF Falsy(text) THEN None
    ELSE ConditionOf(CollapseWhitespace(_normalize_text(text)))

\* only if ([^\.;]+), only when ([^\.;]+), used only when ([^\.;]+), if ([^\.;]+),
\* each under re.IGNORECASE
ClauseRe(prefix) == LitIC(prefix) \o Grp(1, NotPlus({".", ";"}))
ConstraintPats ==
    <<ClauseRe(<<"o","n","l","y"," ","i","f"," ">>), ClauseRe(<<"o","n","l","y"," ","w","h","e","n"," ">>),
      ClauseRe(<<"u","s","e","d"," ","o","n","l","y"," ","w","h","e","n"," ">>), ClauseRe(<<"i","f"," ">>)>>

\* raw_conditions: for each pattern in turn, the normalized clause of each match
RECURSIVE RawConditions(_, _)
RawConditions(pats, description) ==
    IF pats = <<>> THEN <<>>
    ELSE Group1s(description, FindIter(Head(pats), description))
         \o RawConditions(Tail(pats), description)

\* normalized: the conditions parsed from raw_conditions, in order
NormalizedConditions(raw_conditions) ==
    Truthy([j \in 1..Len(raw_conditions) |-> _normalize_condition(raw_conditions[j])])

\* _extract_constraints, from "if not normalized" on
ConstraintSetOf(normalized) ==
    IF normalized = <<>> THEN NoneDict
    ELSE [requires |-> <<>>, conflicts |-> <<>>, implies |-> <<>>,
          validWhen |-> Dedup(normalized, {})]

_extract_constraints(description) ==
    IF Falsy(description) THEN NoneDict
    ELSE ConstraintSetOf(NormalizedConditions(RawConditions(ConstraintPats, description)))

\* '[^']+'
QuotedRe == Lit(<<"'">>) \o NotPlus({"'"}) \o Lit(<<"'">>)

\* re.findall(r"'[^']+'", description)
Group0s(s, ms) == [j \in 1..Len(ms) |-> Group0(s, ms[j])]
QuotedLiterals(description) == Group0s(description, FindIter(QuotedRe, description))

-----------------------------------------------------------------------------
(* The document tree.  An element is given by the tuple of its text nodes; *)
(* a row by its th, td and i elements in document order; a table by its    *)
(* rows (each direct or not), its pre elements and its span.flag elements; *)
(* a section table by the tables nested in it, in document order; an h2    *)
(* by its children (text nodes and spans) and its nearest enclosing table. *)

\* element.get_text(" ", strip=True): the stripped, non-empty text nodes, space-joined
get_text_strip(strings) ==
    Join(Truthy([j \in 1..Len(strings) |-> str_strip(strings[j], Whitespace)]), <<" ">>)

\* element.get_text(): the text nodes, concatenated
get_text(strings) == Join(strings, <<>>)

\* table.find_all("tr", recursive=False)
RECURSIVE DirectRows(_)
DirectRows(rows) ==
    IF rows = <<>> THEN <<>>
    ELSE IF Head(rows).direct THEN <<Head(rows)>> \o DirectRows(Tail(rows))
    ELSE DirectRows(Tail(rows))

\* the loop of _extract_default over table.find_all("tr")
RECURSIVE DefaultOfRows(_)
DefaultOfRows(rows) ==
    IF rows = <<>> THEN None
    ELSE LET tr == Head(rows)
         IN IF /\ tr.i_tags # <<>>
               /\ Contains(get_text(tr.i_tags[1]), <<"D","e","f","a","u","l","t">>)
               /\ Len(tr.tds) >= 2
            THEN _normalize_text(get_text_strip(tr.tds[2]))
            ELSE DefaultOfRows(Tail(rows))

_extract_default(table) == DefaultOfRows(table.rows)

_extract_description(table) ==
    IF table.pres = <<>> THEN None
    ELSE _normalize_text(
            Join(Truthy([j \in 1..Len(table.pres) |->
                            _normalize_text(get_text_strip(table.pres[j]))]), <<" ">>))

\* the loop over table.find_all("span", class_="flag"), in _extract_options and
\* in _extract_card_options
FlagOptions(table) ==
    Dedup(Truthy([j \in 1..Len(table.flags) |-> _normalize_text(get_text_strip(table.flags[j]))]), {})

\* _extract_options, from "if description" on (options are those of the flags)
OptionsWithQuoted(options, description) ==
    IF Falsy(description) THEN options
    ELSE options \o Dedup(QuotedLiterals(description), Range(options))

_extract_options(table, description) == OptionsWithQuoted(FlagOptions(table), description)

TypeTokens == {<<"C","H","A","R","A","C","T","E","R">>, <<"I","N","T","E","G","E","R">>, <<"R","E","A","L">>, <<"L","O","G","I","C","A","L">>}

\* the test of the name and type without the exclusion of "Card's options"
IsNamedAndTyped(name_text, type_text) ==
    IF name_text = <<>> THEN FALSE ELSE str_upper(type_text) \in TypeTokens

\* _is_variable_table, from "if not name_text" on
IsVariableNameAndType(name_text, type_text) ==
    IF name_text = <<>> \/ Contains(name_text, <<"C","a","r","d","'","s"," ","o","p","t","i","o","n","s">>) THEN FALSE
    ELSE str_upper(type_text) \in TypeTokens

\* the test of the first row with a type token looked for in every td
IsVariableRowAnyCell(first_row) ==
    IF first_row.ths = <<>> \/ first_row.tds = <<>> THEN FALSE
    ELSE \E j \in DOMAIN first_row.tds :
            IsVariableNameAndType(_normalize_text(get_text_strip(first_row.ths[1])),
                                  _normalize_text(get_text_strip(first_row.tds[j])))

\* _is_variable_table, from "th = first_row.find" on
IsVariableRow(first_row) ==
    IF first_row.ths = <<>> \/ first_row.tds = <<>> THEN FALSE
    ELSE IsVariableNameAndType(_normalize_text(get_text_strip(first_row.ths[1])),
                               _normalize_text(get_text_strip(first_row.tds[1])))

\* _is_variable_table, on rows = table.find_all("tr", recursive=False)
IsVariableRows(rows) == IF rows = <<>> THEN FALSE ELSE IsVariableRow(rows[1])

_is_variable_table(table) == IsVariableRows(DirectRows(table.rows))

\* _parse_variable_table, from "if not mapped_type" on
VariableRecord(table, section_title, section_type, name, mapped_type, description) ==
    IF Falsy(mapped_type) THEN NoneDict
    ELSE [name |-> name,
          section |-> section_title,
          sectionType |-> section_type,
          type |-> mapped_type,
          default |-> _extract_default(table),
          description |-> description,
          options |-> _extract_options(table, description),
          units |-> _extract_units(description),
          range |-> _extract_range(description),
          example |-> None,
          since |-> None,
          notes |-> None,
          constraints |-> _extract_constraints(description),
          rawText |-> description]

\* _parse_variable_table, from "mapped_type = _map_type" on
VariableOfNameAndType(table, section_title, section_type, name, type_text) ==
    VariableRecord(table, section_title, section_type, name, _map_type(type_text, name),
                   _extract_description(table))

\* _parse_variable_table, from "name = _normalize_text" on
VariableOfRow(table, section_title, section_type, first_row) ==
    VariableOfNameAndType(table, section_title, section_type,
                          _normalize_text(get_text_strip(first_row.ths[1])),
                          _normalize_text(get_text_strip(first_row.tds[1])))

_parse_variable_table(table, section_title, section_type) ==
    IF ~_is_variable_table(table) THEN NoneDict
    ELSE VariableOfRow(table, section_title, section_type, DirectRows(table.rows)[1])

\* table.find("th"): the first th of the table
RECURSIVE FirstTh(_)
FirstTh(rows) ==
    IF rows = <<>> THEN NoneDict
    ELSE IF Head(rows).ths # <<>> THEN [strings |-> Head(rows).ths[1]]
    ELSE FirstTh(Tail(rows))

\* the loop of _extract_card_options over section_table.find_all("table")
\* (th is the first th of the first table)
RECURSIVE CardOptionsOfTables(_)
CardOptionsNext(tables, th) ==
    IF th = NoneDict THEN CardOptionsOfTables(Tail(tables))
    ELSE IF ~Contains(get_text(th.strings), <<"C","a","r","d","'","s"," ","o","p","t","i","o","n","s">>)
    THEN CardOptionsOfTables(Tail(tables))
    ELSE [options |-> FlagOptions(Head(tables)), default |-> _extract_default(Head(tables))]
CardOptionsOfTables(tables) ==
    IF tables = <<>> THEN NoneDict
    ELSE CardOptionsNext(tables, FirstTh(Head(tables).rows))

_extract_card_options(section_table) == CardOptionsOfTables(section_table.tables)

\* dict[key] = value
Put(dict, key, value) ==
    [k \in (DOMAIN dict) \cup {key} |-> IF k = key THEN value ELSE dict[k]]

EmptyDict == <<>>

\* h2.get_text(" ", strip=True): the text nodes of the h2 and of its spans
RECURSIVE H2Strings(_)
H2Strings(children) ==
    IF children = <<>> THEN <<>> ELSE Head(children).strings \o H2Strings(Tail(children))

\* h2.find("span", class_=class)
RECURSIVE FindSpan(_, _)
FindSpan(children, class) ==
    IF children = <<>> THEN NoneDict
    ELSE IF Head(children).tag = "span" /\ Head(children).class = class THEN Head(children)
    ELSE FindSpan(Tail(children), class)

\* the loop of get_sections over soup.find_all('h2')
\* the sections appended for one h2 whose header text has a marker: none, or one
SectionOfH2(h2, header_text, section_type, name_node) ==
    IF h2.parent = NoneDict THEN <<>>
    ELSE <<[title |-> _normalize_text(IF name_node # NoneDict
                                      THEN get_text_strip(name_node.strings)
                                      ELSE header_text),
            section_type |-> section_type,
            table |-> h2.parent]>>

\* the sections appended for one h2, on its header text
SectionOfHeader(h2, header_text) ==
    IF Contains(header_text, <<"N","a","m","e","l","i","s","t",":">>)
    THEN SectionOfH2(h2, header_text, <<"n","a","m","e","l","i","s","t">>, FindSpan(h2.children, "namelist"))
    ELSE IF Contains(header_text, <<"C","a","r","d",":">>)
    THEN SectionOfH2(h2, header_text, <<"c","a","r","d">>, FindSpan(h2.children, "card"))
    ELSE <<>>

RECURSIVE SectionsOf(_)
SectionsOf(h2s) ==
    IF h2s = <<>> THEN <<>>
    ELSE SectionOfHeader(Head(h2s), get_text_strip(H2Strings(Head(h2s).children)))
         \o SectionsOf(Tail(h2s))

get_sections(doc) == SectionsOf(doc)

\* the loop step that keeps the first record of a name
RECURSIVE CollectVariables(_, _, _, _)
CollectNextFirstWins(tables, title, section_type, vars, info) ==
    IF info = NoneDict \/ info.name \in DOMAIN vars
    THEN CollectVariables(Tail(tables), title, section_type, vars)
    ELSE CollectVariables(Tail(tables), title, section_type, Put(vars, info.name, info))

\* (info is the var_info of the first table)
CollectNext(tables, title, section_type, vars, info) ==
    IF info = NoneDict
    THEN CollectVariables(Tail(tables), title, section_type, vars)
    ELSE CollectVariables(Tail(tables), title, section_type, Put(vars, info.name, info))
CollectVariables(tables, title, section_type, vars) ==
    IF tables = <<>> THEN vars
    ELSE CollectNext(tables, title, section_type, vars,
                     _parse_variable_table(Head(tables), title, section_type))

\* f"{title}.{var_name}"
VarKey(title, var_name) == title \o <<".">> \o var_name

\* the entry of diagnostics_data["variables"] and of ranges_data["variables"]
DiagnosticsEntry(var_info, title) ==
    [type |-> var_info.type, options |-> var_info.options, default |-> var_info.default,
     range |-> var_info.range, units |-> var_info.units, section |-> title]
RangesEntry(var_info) == [range |-> var_info.range, units |-> var_info.units]

\* the section entry of completion_data["sections"]
SectionEntryOf(section_type, collected, card_opts) ==
    IF section_type = <<"c","a","r","d">> /\ card_opts # NoneDict
    THEN [sectionType |-> section_type, variables |-> collected, cardOptions |-> card_opts]
    ELSE [sectionType |-> section_type, variables |-> collected]

SectionEntry(section) ==
    SectionEntryOf(section.section_type,
                   CollectVariables(section.table.tables, section.title, section.section_type,
                                    EmptyDict),
                   _extract_card_options(section.table))

\* the snippet of a section
SnippetEntry(title, section_type, section_entry) ==
    LET options == IF "cardOptions" \in DOMAIN section_entry
                   THEN section_entry.cardOptions.options ELSE <<>>
        opt_hint == IF options # <<>>
                    THEN <<" ","{"," ">> \o Join(options, <<" ","|"," ">>) \o <<" ","}">> ELSE <<>>
        snippet_body == IF section_type = <<"n","a","m","e","l","i","s","t">>
                        THEN <<<<"&">> \o title, <<" "," ","$","{","1",":","v","a","r","}"," ","="," ","$","{","2",":","v","a","l","u","e","}">>, <<"/">>>>
                        ELSE <<title \o opt_hint, <<"$","{","1",":",".",".",".","}">>>>
    IN [prefix |-> title, body |-> snippet_body,
        description |-> section_type \o <<" ">> \o title]

\* the loop "for var_name, var_info in variables.items()": the entries of one
\* section's variables, by name, for each of the three dicts
DiagnosticsEntries(vars, title) ==
    [n \in DOMAIN vars |-> DiagnosticsEntry(vars[n], title)]
\* the constraints entries without the test of line 340
ConstraintsEntriesAll(vars) == [n \in DOMAIN vars |-> vars[n].constraints]
ConstraintsEntries(vars) ==
    [n \in {x \in DOMAIN vars : vars[x].constraints # NoneDict} |-> vars[n].constraints]
RangesEntries(vars) ==
    [n \in {x \in DOMAIN vars : ~Falsy(vars[x].range) \/ ~Falsy(vars[x].units)} |->
        RangesEntry(vars[n])]

\* dict[f"{title}.{var_name}"] = entry, for every var_name of entries
Project(dict, entries, title) ==
    LET keys == {VarKey(title, n) : n \in DOMAIN entries}
    IN [k \in (DOMAIN dict) \cup keys |->
          IF k \in keys THEN entries[CHOOSE n \in DOMAIN entries : VarKey(title, n) = k]
          ELSE dict[k]]

-----------------------------------------------------------------------------
(* State *)

VARIABLES
    pc,                 \* the position of the program
    soup,               \* the h2 elements of the parsed document, in document order
    sections,           \* the list get_sections returns
    idx,                \* the position of main's loop in sections
    completion_data, diagnostics_data, constraints_data, ranges_data, snippets_data,
    files,              \* the JSON files written, by name
    description,        \* the argument of a text extractor
    units,              \* the result of _extract_units
    constraints,        \* the result of _extract_constraints
    table,              \* the argument of _parse_variable_table
    is_variable,        \* the result of _is_variable_table
    var_info,           \* the result of _parse_variable_table
    variables           \* the dict of main's loop over tables, after this table

vars ==
    <<pc, soup, sections, idx, completion_data, diagnostics_data, constraints_data,
      ranges_data, snippets_data, files, description, units, constraints, table,
      is_variable, var_info, variables>>

mainVars ==
    <<soup, sections, idx, completion_data, diagnostics_data, constraints_data,
      ranges_data, snippets_data, files>>
textVars == <<description, units, constraints>>
tableVars == <<table, is_variable, var_info, variables>>

-----------------------------------------------------------------------------
(* Inputs *)

MaxH2 == 2
MaxPhrases == 3
MaxCells == 2

\* the tuples over 1..n of length at most max
IndexSeqs(n, max) == UNION {[1..k -> 1..n] : k \in 0..max}

\* the texts made of at most MaxPhrases of the phrases, space-separated
TextsOf(phrases) ==
    {Join([j \in 1..Len(ix) |-> phrases[ix[j]]], <<" ">>) :
        ix \in IndexSeqs(Len(phrases), MaxPhrases)}

UnitPhrases ==
    <<<<"i","n"," ","R","y">>, <<"i","n"," ","e","V">>, <<"(","K","e","l","v","i","n",")">>, <<"(","d","e","f","a","u","l","t",")">>, <<"(","s","e","e"," ","b","e","l","o","w",")">>,
      <<"i","n"," ","t","h","e">>, <<"c","u","t","o","f","f">>>>

ConstraintPhrases ==
    <<<<"u","s","e","d"," ","o","n","l","y"," ","i","f">>, <<"n","o","n","c","o","l","i","n">>, <<"l","s","p","i","n","o","r","b">>, <<"i","s"," ","s","e","t">>, <<"i","b","r","a","v"," ","=","="," ","0">>,
      <<"i","f"," ","n","e","e","d","e","d",".">>>>

\* rows
Row(direct, ths, tds, i_tags) == [direct |-> direct, ths |-> ths, tds |-> tds, i_tags |-> i_tags]
DefaultRow(value) == Row(TRUE, <<>>, <<<<<<"D","e","f","a","u","l","t",":">>>>, <<value>>>>, <<<<<<"D","e","f","a","u","l","t",":">>>>>>)

\* the th elements and the td elements of the first rows tried
HeaderCells ==
    <<<<<<" ","i","b","r","a","v"," ">>>>, <<<<"c","e","l","l","d","m">>, <<"(","i",")">>>>, <<<<"C","a","r","d","'","s"," ","o","p","t","i","o","n","s">>>>,
      <<<<"C","a","r","d","'","s">>, <<" ","o","p","t","i","o","n","s",":"," ">>>>, <<<<"C","a","r","d","'","s"," ","o","p","t">>, <<"i","o","n","s">>>>, <<<<" "," ">>>>>>
DataCells ==
    <<<<<<"I","N","T","E","G","E","R">>>>, <<<<" ","r","e","a","l"," ">>>>, <<<<"C","H","A","R","A","C","T","E","R">>>>, <<<<"L","o","g","i","c","a","l">>>>, <<<<"s","e","e"," ","t","e","x","t">>>>>>
PreLists ==
    {<<>>, <<<<<<" "," ">>>>>>, <<<<<<" ">>>>, <<<<"\n">>, <<" ">>>>>>, <<<<<<" "," ">>>>, <<<<"l","a","t","t","i","c","e"," ">>, <<" ","i","n","d","e","x">>>>>>}

\* the tables given to _parse_variable_table: a first row, direct or not, with or
\* without a th and with at most MaxCells td, a Default row, and pre elements
TableInputs ==
    {[rows |-> <<Row(direct, ths, [j \in 1..Len(ix) |-> DataCells[ix[j]]], <<>>),
                 DefaultRow(<<"0">>)>>,
      pres |-> pres, flags |-> <<>>] :
        direct \in BOOLEAN,
        ths \in {<<>>} \cup {<<HeaderCells[h]>> : h \in DOMAIN HeaderCells},
        ix \in IndexSeqs(Len(DataCells), MaxCells),
        pres \in PreLists}

\* the tables of the documents given to main
VarTable(name, type, default, pre) ==
    [rows |-> <<Row(TRUE, <<<<name>>>>, <<<<type>>>>, <<>>), DefaultRow(default)>>,
     pres |-> <<<<pre>>>>, flags |-> <<>>]
TableIbravInt == VarTable(<<"i","b","r","a","v">>, <<"I","N","T","E","G","E","R">>, <<"0">>, <<"i","f"," ","i","b","r","a","v"," ","="," ","0">>)
TableIbravReal == VarTable(<<"i","b","r","a","v">>, <<"R","E","A","L">>, <<"1",".","0">>, <<"c","u","t","o","f","f"," ","i","n"," ","R","y">>)
TableNat == VarTable(<<"n","a","t">>, <<"I","N","T","E","G","E","R">>, <<"1">>, <<"u","s","e"," ","i","f"," ","n","e","e","d","e","d">>)
TableCardOptions ==
    [rows |-> <<Row(TRUE, <<<<<<"C","a","r","d","'","s"," ","o","p","t","i","o","n","s",":">>>>>>, <<<<<<"t","p","i","b","a">>, <<" ","|"," ">>, <<"g","a","m","m","a">>>>>>, <<>>),
                DefaultRow(<<"t","p","i","b","a">>)>>,
     pres |-> <<>>, flags |-> <<<<<<"t","p","i","b","a">>>>, <<<<"g","a","m","m","a">>>>, <<<<"t","p","i","b","a">>>>>>]

SectionTables ==
    {[tables |-> ts] :
        ts \in {<<>>, <<TableIbravInt, TableIbravReal>>, <<TableIbravReal, TableIbravInt>>,
                <<TableNat>>, <<TableCardOptions, TableIbravInt>>}}

\* h2 elements
Text(s) == [tag |-> "text", class |-> "", strings |-> <<s>>]
Span(class, strings) == [tag |-> "span", class |-> class, strings |-> strings]
H2(children, parent) == [children |-> children, parent |-> parent]

\* the h2 elements of the documents given to main: a namelist and a card heading
MainH2s ==
    {H2(<<Text(<<"N","a","m","e","l","i","s","t",":"," ">>), Span("namelist", <<<<"S","Y","S","T","E","M">>>>)>>, t) : t \in SectionTables}
    \cup {H2(<<Text(<<"C","a","r","d",":"," ">>), Span("card", <<<<"K","_","P","O","I","N","T","S">>>>)>>, t) : t \in SectionTables}

\* the h2 elements given to get_sections alone
NoTables == [tables |-> <<>>]
SectionH2s ==
    {H2(<<Text(<<"N","a","m","e","l","i","s","t",":"," ">>), Span("namelist", <<<<"S","Y","S","T","E","M">>>>)>>, NoTables),
     H2(<<Text(<<" ","C","a","r","d",":"," ">>), Span("card", <<<<" ","K","_","P","O","I","N","T","S">>, <<"\n">>>>)>>, NoTables),
     H2(<<Text(<<"N","a","m","e","l","i","s","t",":"," ">>), Span("namelist", <<<<" "," ">>>>)>>, NoTables),
     H2(<<Text(<<"C","a","r","d",":"," ">>), Span("card", <<>>)>>, NoTables),
     H2(<<Text(<<"N","a","m","e","l","i","s","t",":"," ","&","C","O","N","T","R","O","L">>)>>, NoTables),
     H2(<<Text(<<"N","a","m","e","l","i","s","t",":"," ">>), Span("card", <<<<"C","E","L","L">>>>)>>, NoTables),
     H2(<<Text(<<"D","e","s","c","r","i","p","t","i","o","n">>)>>, NoTables),
     H2(<<Text(<<"C","a","r","d",":"," ">>), Span("card", <<<<"C","E","L","L">>>>)>>, NoneDict)}

\* the documents of at most MaxH2 h2 elements
Documents(h2s) == UNION {[1..k -> h2s] : k \in 0..MaxH2}

-----------------------------------------------------------------------------
(* Operations *)

NoFiles == EmptyDict

MainIdle ==
    /\ soup = <<>>
    /\ sections = <<>>
    /\ idx = 1
    /\ completion_data = [sections |-> EmptyDict]
    /\ diagnostics_data = [variables |-> EmptyDict, cards |-> EmptyDict]
    /\ constraints_data = [variables |-> EmptyDict]
    /\ ranges_data = [variables |-> EmptyDict]
    /\ snippets_data = EmptyDict
    /\ files = NoFiles
TextIdle == description = None /\ units = None /\ constraints = NoneDict
TableIdle ==
    /\ table = NoneDict
    /\ is_variable = FALSE
    /\ var_info = NoneDict
    /\ variables = EmptyDict

\* main: sections = get_sections(), and the five empty dicts
GetSections ==
    /\ pc = "start"
    /\ sections' = get_sections(soup)
    /\ idx' = 1
    /\ completion_data' = [sections |-> EmptyDict]
    /\ diagnostics_data' = [variables |-> EmptyDict, cards |-> EmptyDict]
    /\ constraints_data' = [variables |-> EmptyDict]
    /\ ranges_data' = [variables |-> EmptyDict]
    /\ snippets_data' = EmptyDict
    /\ pc' = "loop"
    /\ UNCHANGED <<soup, files, textVars, tableVars>>

\* main: the body of "for section in sections", from "completion_data[...] =" on,
\* with the cards of diagnostics_data
StoreSection(title, section_type, section_entry) ==
    /\ completion_data' =
          [sections |-> Put(completion_data.sections, title, section_entry)]
    /\ diagnostics_data' =
          [variables |-> Project(diagnostics_data.variables,
                                 DiagnosticsEntries(section_entry.variables, title), title),
           cards |-> IF "cardOptions" \in DOMAIN section_entry
                     THEN Put(diagnostics_data.cards, title, section_entry.cardOptions)
                     ELSE diagnostics_data.cards]
    /\ constraints_data' =
          [variables |-> Project(constraints_data.variables,
                                 ConstraintsEntries(section_entry.variables), title)]
    /\ ranges_data' =
          [variables |-> Project(ranges_data.variables,
                                 RangesEntries(section_entry.variables), title)]
    /\ snippets_data' =
          Put(snippets_data, title, SnippetEntry(title, section_type, section_entry))

\* main: one iteration of "for section in sections"
ProcessSection ==
    /\ pc = "loop"
    /\ idx <= Len(sections)
    /\ StoreSection(sections[idx].title, sections[idx].section_type,
                    SectionEntry(sections[idx]))
    /\ idx' = idx + 1
    /\ UNCHANGED <<pc, soup, sections, files, textVars, tableVars>>

\* main: the five json.dump calls, after the loop
WriteFiles ==
    /\ pc = "loop"
    /\ idx > Len(sections)
    /\ files' = [completion |-> completion_data, diagnostics |-> diagnostics_data,
                 constraints |-> constraints_data, ranges |-> ranges_data,
                 snippets |-> snippets_data]
    /\ pc' = "done"
    /\ UNCHANGED <<soup, sections, idx, completion_data, diagnostics_data, constraints_data,
                   ranges_data, snippets_data, textVars, tableVars>>

\* a call of _extract_units
ExtractUnits ==
    /\ pc = "call_units"
    /\ units' = _extract_units(description)
    /\ pc' = "return"
    /\ UNCHANGED <<description, constraints, mainVars, tableVars>>

\* a call of _extract_constraints
ExtractConstraints ==
    /\ pc = "call_constraints"
    /\ constraints' = _extract_constraints(description)
    /\ pc' = "return"
    /\ UNCHANGED <<description, units, mainVars, tableVars>>

\* one iteration of main's loop over the tables of a section, from empty variables
ParseVariableTable ==
    /\ pc = "call_table"
    /\ is_variable' = _is_variable_table(table)
    /\ var_info' = _parse_variable_table(table, <<"S","Y","S","T","E","M">>, <<"n","a","m","e","l","i","s","t">>)
    /\ variables' = CollectVariables(<<table>>, <<"S","Y","S","T","E","M">>, <<"n","a","m","e","l","i","s","t">>, EmptyDict)
    /\ pc' = "return"
    /\ UNCHANGED <<table, mainVars, textVars>>

-----------------------------------------------------------------------------
(* Specifications *)

\* main, on a document of at most MaxH2 sections
Init ==
    /\ pc = "start"
    /\ soup \in Documents(MainH2s)
    /\ sections = <<>>
    /\ idx = 1
    /\ completion_data = [sections |-> EmptyDict]
    /\ diagnostics_data = [variables |-> EmptyDict, cards |-> EmptyDict]
    /\ constraints_data = [variables |-> EmptyDict]
    /\ ranges_data = [variables |-> EmptyDict]
    /\ snippets_data = EmptyDict
    /\ files = NoFiles
    /\ TextIdle
    /\ TableIdle

Next == GetSections \/ ProcessSection \/ WriteFiles

Spec == Init /\ [][Next]_vars

\* get_sections, on the h2 elements of SectionH2s
InitSections ==
    /\ pc = "start"
    /\ soup \in Documents(SectionH2s)
    /\ sections = <<>>
    /\ idx = 1
    /\ completion_data = [sections |-> EmptyDict]
    /\ diagnostics_data = [variables |-> EmptyDict, cards |-> EmptyDict]
    /\ constraints_data = [variables |-> EmptyDict]
    /\ ranges_data = [variables |-> EmptyDict]
    /\ snippets_data = EmptyDict
    /\ files = NoFiles
    /\ TextIdle
    /\ TableIdle

NextSections == GetSections

SpecSections == InitSections /\ [][NextSections]_vars

\* _extract_units, on the descriptions made of UnitPhrases
InitUnits ==
    /\ pc = "call_units"
    /\ description \in TextsOf(UnitPhrases)
    /\ units = None
    /\ constraints = NoneDict
    /\ MainIdle
    /\ TableIdle

NextUnits == ExtractUnits

SpecUnits == InitUnits /\ [][NextUnits]_vars

\* _extract_constraints, on the descriptions made of ConstraintPhrases
InitConstraints ==
    /\ pc = "call_constraints"
    /\ description \in TextsOf(ConstraintPhrases)
    /\ units = None
    /\ constraints = NoneDict
    /\ MainIdle
    /\ TableIdle

NextConstraints == ExtractConstraints

SpecConstraints == InitConstraints /\ [][NextConstraints]_vars

\* _parse_variable_table, on the tables of TableInputs
InitTable ==
    /\ pc = "call_table"
    /\ table \in TableInputs
    /\ is_variable = FALSE
    /\ var_info = NoneDict
    /\ variables = EmptyDict
    /\ MainIdle
    /\ TextIdle

NextTable == ParseVariableTable

SpecTable == InitTable /\ [][NextTable]_vars

-----------------------------------------------------------------------------
(* Properties of the text extractors *)

Identifiers == {<<"n","o","n","c","o","l","i","n">>, <<"l","s","p","i","n","o","r","b">>}

\* C1: when _extract_constraints returns from a description of the form
\* "used only if X is set", the condition "X == .TRUE." is in validWhen.
C1_SetClauseNamesTheIdentifier ==
    \A x \in Identifiers :
        (pc = "return" /\ description = <<"u","s","e","d"," ","o","n","l","y"," ","i","f"," ">> \o x \o <<" ","i","s"," ","s","e","t">>)
            => /\ constraints # NoneDict
               /\ (x \o <<" ","=","="," ",".","T","R","U","E",".">>) \in Range(constraints.validWhen)

\* the positions of the "(" that open a non-empty parenthesized group
ParenOpens(d) ==
    {i \in 1..Len(d) : /\ d[i] = "("
                       /\ i + 1 <= Len(d) /\ d[i + 1] # ")"
                       /\ \E j \in (i + 2)..Len(d) : d[j] = ")"}
\* the text of the first parenthesized group
FirstParenText(d) ==
    LET i == SetMin(ParenOpens(d))
        j == SetMin({k \in (i + 2)..Len(d) : d[k] = ")"})
    IN SubSeq(d, i + 1, j - 1)
\* a text that is taken as a unit: a key of unit_map without regard to case and to
\* full stops around it, or at most 12 characters that are letters, digits, / ^ - or .
TakenAsUnit(t) ==
    /\ t # <<>>
    /\ \/ \E k \in DOMAIN unit_map : unit_map[k][1] = str_strip(str_lower(t), {"."})
       \/ Len(t) <= 12 /\ \A i \in DOMAIN t : t[i] \in Letters \cup Digits \cup {"/", "^", "-", "."}
NoParenUnit(d) ==
    ParenOpens(d) = {} \/ ~TakenAsUnit(_normalize_text(FirstParenText(d)))
\* the positions where the word "in" starts and whitespace follows it
InWords(d) ==
    {i \in 1..(Len(d) - 2) : /\ d[i] = "i" /\ d[i + 1] = "n" /\ d[i + 2] \in Whitespace
                             /\ (i = 1 \/ d[i - 1] \notin WordChars)}
\* the first word "in" is followed by one whitespace character and the word u, and
\* u by the end of the text, whitespace, or a full stop before either
FirstInIs(d, u) ==
    /\ InWords(d) # {}
    /\ LET i == SetMin(InWords(d))
           k == i + 3 + Len(u)
       IN /\ k - 1 <= Len(d)
          /\ SubSeq(d, i + 3, k - 1) = u
          /\ \/ k > Len(d)
             \/ d[k] \in Whitespace
             \/ d[k] = "." /\ (k + 1 > Len(d) \/ d[k + 1] \in Whitespace)

\* C2 (as stated, on the descriptions that hold one of the three cues): a description
\* that contains "in Ry" has units Ry, one that contains "in eV" has units eV, one that
\* contains "(Kelvin)" has units K.
C2_CueGivesItsSymbol ==
    pc = "return" =>
        LET ry == Contains(description, <<"i","n"," ","R","y">>)
            ev == Contains(description, <<"i","n"," ","e","V">>)
            kelvin == Contains(description, <<"(","K","e","l","v","i","n",")">>)
        IN /\ (ry /\ ~ev /\ ~kelvin) => units = <<"R","y">>
           /\ (ev /\ ~ry /\ ~kelvin) => units = <<"e","V">>
           /\ (kelvin /\ ~ry /\ ~ev) => units = <<"K">>

\* C2 (amended): a description whose first parenthesized group is "(Kelvin)" has units
\* K; a description whose first parenthesized group, if any, is not taken as a unit and
\* whose first word "in" is followed by Ry (by eV) has units Ry (eV).
C2_FirstCandidateGivesItsSymbol ==
    pc = "return" =>
        /\ (ParenOpens(description) # {} /\ FirstParenText(description) = <<"K","e","l","v","i","n">>)
              => units = <<"K">>
        /\ (NoParenUnit(description) /\ FirstInIs(description, <<"R","y">>)) => units = <<"R","y">>
        /\ (NoParenUnit(description) /\ FirstInIs(description, <<"e","V">>)) => units = <<"e","V">>

\* a description with a parenthesized group that is no unit, and "in Ry" later
C2_Witness ==
    /\ pc = "return"
    /\ ParenOpens(description) # {}
    /\ NoParenUnit(description)
    /\ FirstInIs(description, <<"R","y">>)
    /\ Contains(description, <<"(","K","e","l","v","i","n",")">>)
    /\ units = <<"R","y">>

-----------------------------------------------------------------------------
(* Properties of get_sections *)

\* C3: every section get_sections returns has a non-empty title and a type that is
\* namelist or card.
C3_SectionsAreTitledAndTyped ==
    pc = "loop" =>
        \A i \in DOMAIN sections :
            /\ sections[i].title # <<>>
            /\ sections[i].section_type \in {<<"n","a","m","e","l","i","s","t">>, <<"c","a","r","d">>}

-----------------------------------------------------------------------------
(* Properties of the table classifier and parser *)

\* the first direct row of a table
HasFirstRow(t) == \E i \in DOMAIN t.rows : t.rows[i].direct
FirstRow(t) == t.rows[SetMin({i \in DOMAIN t.rows : t.rows[i].direct})]
\* the header text: the separator-joined, whitespace-normalised text of the first th
HeaderText(t) == _normalize_text(get_text_strip(FirstRow(t).ths[1]))
HasHeader(t) == HasFirstRow(t) /\ FirstRow(t).ths # <<>>
HeaderIsName(t) ==
    /\ HasHeader(t)
    /\ HeaderText(t) # <<>>
    /\ ~Contains(HeaderText(t), <<"C","a","r","d","'","s"," ","o","p","t","i","o","n","s">>)
\* the type token of a td
CellToken(cell) == str_upper(_normalize_text(get_text_strip(cell)))
SomeCellIsType(t) ==
    HasFirstRow(t) /\ \E j \in DOMAIN FirstRow(t).tds : CellToken(FirstRow(t).tds[j]) \in TypeTokens
FirstCellIsType(t) ==
    HasFirstRow(t) /\ FirstRow(t).tds # <<>> /\ CellToken(FirstRow(t).tds[1]) \in TypeTokens

\* C4 (as stated): a table is classified as a variable table exactly when its first
\* direct row has a non-empty header without "Card's options" and at least one data
\* cell, in any position, that is a type token.
C4_AnyCellDecides ==
    pc = "return" => (is_variable <=> (HeaderIsName(table) /\ SomeCellIsType(table)))

\* C4 (amended): a table is classified as a variable table exactly when its first
\* direct row has a non-empty header without "Card's options" and its FIRST data cell
\* is a type token; every other table yields no variable.
C4_FirstCellDecides ==
    pc = "return" =>
        /\ is_variable <=> (HeaderIsName(table) /\ FirstCellIsType(table))
        /\ is_variable <=> var_info # NoneDict
        /\ ~is_variable => variables = EmptyDict

\* a variable table whose second data cell is no type token
C4_Witness ==
    /\ pc = "return"
    /\ is_variable
    /\ Len(FirstRow(table).tds) >= 2
    /\ CellToken(FirstRow(table).tds[2]) \notin TypeTokens
    /\ var_info # NoneDict

\* C5: the record of a table with no pre element, or with only blank ones, has the
\* description None, never the empty string, and the rawText None.
C5_BlankDescriptionIsNone ==
    (/\ pc = "return"
     /\ var_info # NoneDict
     /\ \A j \in DOMAIN table.pres : _normalize_text(get_text_strip(table.pres[j])) = <<>>)
        => var_info.description = None /\ var_info.rawText = None

HasParen(name) == \E i \in DOMAIN name : name[i] \in {"(", ")"}
TypeImage(token) ==
    CASE token = <<"C","H","A","R","A","C","T","E","R">> -> <<"S","t","r","i","n","g">>
      [] token = <<"I","N","T","E","G","E","R">> -> <<"I","n","t","e","g","e","r">>
      [] token = <<"R","E","A","L">> -> <<"R","e","a","l">>
      [] token = <<"L","O","G","I","C","A","L">> -> <<"L","o","g","i","c","a","l">>

\* C6: the type of a record is String, Integer, Real, Logical or Array; it is Array
\* exactly when the name contains "(" or ")", and the image of the type token otherwise.
C6_TypeOfRecord ==
    (pc = "return" /\ var_info # NoneDict) =>
        /\ var_info.type \in {<<"S","t","r","i","n","g">>, <<"I","n","t","e","g","e","r">>, <<"R","e","a","l">>, <<"L","o","g","i","c","a","l">>, <<"A","r","r","a","y">>}
        /\ var_info.type = <<"A","r","r","a","y">> <=> HasParen(var_info.name)
        /\ ~HasParen(var_info.name)
              => var_info.type = TypeImage(CellToken(FirstRow(table).tds[1]))

\* a record of an indexed name
C6_Witness ==
    /\ pc = "return"
    /\ var_info # NoneDict
    /\ HasParen(var_info.name)
    /\ var_info.type = <<"A","r","r","a","y">>
    /\ CellToken(FirstRow(table).tds[1]) = <<"R","E","A","L">>

\* C7: a table whose header text contains "Card's options" is not a variable table and
\* adds no entry to the variables of its section.
C7_CardOptionsIsNoVariable ==
    (/\ pc = "return"
     /\ HasHeader(table)
     /\ Contains(HeaderText(table), <<"C","a","r","d","'","s"," ","o","p","t","i","o","n","s">>))
        => /\ ~is_variable
           /\ var_info = NoneDict
           /\ variables = EmptyDict

\* a "Card's options" table whose first data cell is a type token
C7_Witness ==
    /\ pc = "return"
    /\ HasHeader(table)
    /\ Contains(HeaderText(table), <<"C","a","r","d","'","s"," ","o","p","t","i","o","n","s">>)
    /\ FirstCellIsType(table)
    /\ ~is_variable
    /\ variables = EmptyDict

-----------------------------------------------------------------------------
(* Properties of main *)

\* the records parsed from the tables of section s, None included, in document order
TablesOf(s) == sections[s].table.tables
ParsedAt(s, j) ==
    _parse_variable_table(TablesOf(s)[j], sections[s].title, sections[s].section_type)
RecordsOf(s) == [j \in DOMAIN TablesOf(s) |-> ParsedAt(s, j)]
\* among records, the positions of those of a variable, of those named n, and the names
Yielding(records) == {j \in DOMAIN records : records[j] # NoneDict}
Named(records, n) == {j \in Yielding(records) : records[j].name = n}
NamesOf(records) == {records[j].name : j \in Yielding(records)}
LastNamed(records, n) == records[SetMax(Named(records, n))]

\* the entry of the diagnostics is made of the record
MadeOf(entry, record, title) ==
    /\ entry.type = record.type
    /\ entry.default = record.default
    /\ entry.units = record.units
    /\ entry.range = record.range
    /\ entry.options = record.options
    /\ entry.section = title

\* the variables stored for a section and the diagnostics hold, for each name among the
\* records of the section, the last record of that name
LastRecordsStored(records, title, stored, entries) ==
    /\ DOMAIN stored = NamesOf(records)
    /\ \A n \in NamesOf(records) :
          /\ stored[n] = LastNamed(records, n)
          /\ VarKey(title, n) \in DOMAIN entries
          /\ MadeOf(entries[VarKey(title, n)], LastNamed(records, n), title)

\* after a section is processed, its variables hold one entry for each name its tables
\* yield, and the entry is the whole record of the last table that yields the name; the
\* diagnostics entry of the name is made of that record too
LastTableWinsInSection ==
    (pc = "loop" /\ idx > 1) =>
        LastRecordsStored(RecordsOf(idx - 1), sections[idx - 1].title,
                          completion_data.sections[sections[idx - 1].title].variables,
                          diagnostics_data.variables)

\* the records of the sections of one title, in document order
RECURSIVE RecordsOfTitle(_, _)
RecordsOfTitle(s, title) ==
    IF s > Len(sections) THEN <<>>
    ELSE (IF sections[s].title = title THEN RecordsOf(s) ELSE <<>>)
         \o RecordsOfTitle(s + 1, title)
LastOfTitle(title) == SetMax({s \in DOMAIN sections : sections[s].title = title})

\* the entries of the diagnostics hold, for each name among the records, the last record
LastRecordsWritten(records, title, entries) ==
    \A n \in NamesOf(records) :
        /\ VarKey(title, n) \in DOMAIN entries
        /\ MadeOf(entries[VarKey(title, n)], LastNamed(records, n), title)

\* in the files written, the entry of diagnostics.json under a key is made of the
\* record of the last table, in document order, that yields the key, and the variables
\* of a section of completion.json are those of the last section of that title
LastTableWinsInFiles ==
    pc = "done" =>
        \A title \in {sections[s].title : s \in DOMAIN sections} :
            /\ LastRecordsWritten(RecordsOfTitle(1, title), title, files.diagnostics.variables)
            /\ LastRecordsStored(RecordsOf(LastOfTitle(title)), title,
                                 files.completion.sections[title].variables,
                                 files.diagnostics.variables)

\* a processed section with two tables that yield different records of one name
C8_Witness ==
    /\ pc = "loop"
    /\ idx > 1
    /\ \E i, j \in Yielding(RecordsOf(idx - 1)) :
          /\ i < j
          /\ ParsedAt(idx - 1, i).name = ParsedAt(idx - 1, j).name
          /\ ParsedAt(idx - 1, i) # ParsedAt(idx - 1, j)
          /\ completion_data.sections[sections[idx - 1].title].variables[ParsedAt(idx - 1, j).name]
                = ParsedAt(idx - 1, j)

\* C8: when several tables of a section yield one name, the variables of the section and
\* the diagnostics hold one entry for it, and that entry is, in every field, the record
\* of the table parsed last in document order.
C8_LastTableWins == LastTableWinsInSection /\ LastTableWinsInFiles

NoDuplicates(seq) == \A i, j \in DOMAIN seq : seq[i] = seq[j] => i = j
WellFormed(c) ==
    /\ c # NoneDict
    /\ c.validWhen # <<>>
    /\ NoDuplicates(c.validWhen)
    /\ c.requires = <<>>
    /\ c.conflicts = <<>>
    /\ c.implies = <<>>
\* no conditional clause of the description yields a condition
NoClauseParses(d) ==
    \/ Falsy(d)
    \/ \A raw \in Range(RawConditions(ConstraintPats, d)) : Falsy(_normalize_condition(raw))

\* C9: every entry of the constraints has a non-empty validWhen without duplicates and
\* empty requires, conflicts and implies, and is the constraints of a record of a
\* processed section; a record none of whose clauses parses has the constraints None,
\* and one with constraints has them under its key.
C9_ConstraintsEntries ==
    /\ \A k \in DOMAIN constraints_data.variables :
          /\ WellFormed(constraints_data.variables[k])
          /\ \E s \in 1..(idx - 1) : \E j \in Yielding(RecordsOf(s)) :
                /\ VarKey(sections[s].title, ParsedAt(s, j).name) = k
                /\ ParsedAt(s, j).constraints = constraints_data.variables[k]
    /\ \A t \in DOMAIN completion_data.sections :
          \A n \in DOMAIN completion_data.sections[t].variables :
              LET r == completion_data.sections[t].variables[n]
              IN /\ r.constraints = NoneDict <=> NoClauseParses(r.description)
                 /\ r.constraints # NoneDict
                       => /\ WellFormed(r.constraints)
                          /\ VarKey(t, n) \in DOMAIN constraints_data.variables
                          /\ constraints_data.variables[VarKey(t, n)] = r.constraints
    /\ pc = "done" => files.constraints = constraints_data

\* the files of a document with a constrained variable and an unconstrained one
C9_Witness ==
    /\ pc = "done"
    /\ DOMAIN files.constraints.variables # {}
    /\ \E t \in DOMAIN files.completion.sections :
          \E n \in DOMAIN files.completion.sections[t].variables :
              /\ files.completion.sections[t].variables[n].constraints = NoneDict
              /\ files.completion.sections[t].variables[n].description # None
              /\ VarKey(t, n) \notin DOMAIN files.constraints.variables

\* the variable of completion.json that the key names
IsKeyOf(k, t, n) ==
    /\ t \in DOMAIN files.completion.sections
    /\ n \in DOMAIN files.completion.sections[t].variables
    /\ VarKey(t, n) = k

\* C10: in the files written, every entry of diagnostics.json, of constraints.json and
\* of ranges.json is that of a variable of completion.json, with the same values, and
\* every card of diagnostics.json is the cardOptions of a section of completion.json.
C10_FilesAgree ==
    pc = "done" =>
        LET sects == files.completion.sections
        IN /\ \A k \in DOMAIN files.diagnostics.variables :
                \E t \in DOMAIN sects : \E n \in DOMAIN sects[t].variables :
                    /\ IsKeyOf(k, t, n)
                    /\ files.diagnostics.variables[k].type = sects[t].variables[n].type
                    /\ files.diagnostics.variables[k].options = sects[t].variables[n].options
                    /\ files.diagnostics.variables[k].default = sects[t].variables[n].default
                    /\ files.diagnostics.variables[k].range = sects[t].variables[n].range
                    /\ files.diagnostics.variables[k].units = sects[t].variables[n].units
           /\ \A k \in DOMAIN files.constraints.variables :
                \E t \in DOMAIN sects : \E n \in DOMAIN sects[t].variables :
                    /\ IsKeyOf(k, t, n)
                    /\ files.constraints.variables[k] = sects[t].variables[n].constraints
           /\ \A k \in DOMAIN files.ranges.variables :
                \E t \in DOMAIN sects : \E n \in DOMAIN sects[t].variables :
                    /\ IsKeyOf(k, t, n)
                    /\ files.ranges.variables[k].range = sects[t].variables[n].range
                    /\ files.ranges.variables[k].units = sects[t].variables[n].units
           /\ \A t \in DOMAIN files.diagnostics.cards :
                /\ t \in DOMAIN sects
                /\ "cardOptions" \in DOMAIN sects[t]
                /\ sects[t].cardOptions = files.diagnostics.cards[t]

====
